---------------------------- MODULE Spec2Model ----------------------------
(***************************************************************************)
(* A model of the five SOLID example programs of the repository:           *)
(*   src/dependency_inversion.py, src/open_closed.py,                      *)
(*   src/interface_segregation.py,                                         *)
(*   src/solid-principles/liskov_substitution.py,                          *)
(*   src/solid-principles/single_responsibility.py.                        *)
(*                                                                         *)
(* Each file is a program of its own.  The state is the program that is    *)
(* loaded, its heap of objects (class and instance dictionary of each),    *)
(* and the record of the last top-level call: what was called, on what,    *)
(* with which arguments, what came back (a value or an exception), which   *)
(* method calls it made and what it printed.  Python values are tagged     *)
(* records; a method call is resolved along the class's bases as Python    *)
(* does, so a missing method is an AttributeError and an inherited         *)
(* placeholder is whatever the placeholder raises.                         *)
(***************************************************************************)
EXTENDS Integers, Sequences, FiniteSets, TLC

VARIABLES
    module,     \* the example file that is loaded
    heap,       \* the objects created so far: identity -> instance dictionary
    last,       \* the last top-level call and its outcome
    pinned      \* an earlier call kept for comparison with later ones

vars == <<module, heap, last, pinned>>

(***************************************************************************)
(* Bounds of the model.                                                    *)
(***************************************************************************)
MaxObjects == 3

(***************************************************************************)
(* Python values.                                                          *)
(***************************************************************************)
PyNone == [t |-> "None"]

PyStr(s) == [t |-> "str", s |-> s]

PyInt(n) == [t |-> "int", n |-> n]

PyBool(b) == [t |-> "bool", b |-> b]

\* a reference to an object; its identity is its class and a serial number
PyRef(i) == [t |-> "ref", id |-> i]

PyTuple(vs) == [t |-> "tuple", items |-> vs]

(***************************************************************************)
(* Python numbers.  An int is exact.  A float is IEEE 754 binary64, kept   *)
(* as sign, odd significand and exponent; products, sums and literals      *)
(* are rounded to 53 bits, to nearest and ties to even, as the hardware    *)
(* does.  Overflow, subnormals, infinities and NaN are outside the         *)
(* magnitudes the model uses.                                              *)
(***************************************************************************)
\* natural numbers of any size: little-endian sequences of 15-bit limbs
LimbBits == 15

RECURSIVE Pow2(_)
Pow2(k) == IF k = 0 THEN 1 ELSE 2 * Pow2(k - 1)

LimbBase == Pow2(LimbBits)

RECURSIVE BTrim(_)
BTrim(a) == IF a = <<>> THEN a ELSE IF a[Len(a)] = 0 THEN BTrim(SubSeq(a, 1, Len(a) - 1)) ELSE a

RECURSIVE BFromNat(_)
BFromNat(n) == IF n = 0 THEN <<>> ELSE <<n % LimbBase>> \o BFromNat(n \div LimbBase)

BLimb(a, i) == IF i <= Len(a) THEN a[i] ELSE 0

BMax(m, n) == IF m >= n THEN m ELSE n

RECURSIVE BAddFrom(_, _, _, _)
BAddFrom(a, b, i, carry) ==
    IF i > BMax(Len(a), Len(b)) THEN (IF carry = 0 THEN <<>> ELSE <<carry>>)
    ELSE LET t == BLimb(a, i) + BLimb(b, i) + carry
         IN <<t % LimbBase>> \o BAddFrom(a, b, i + 1, t \div LimbBase)

BAdd(a, b) == BAddFrom(a, b, 1, 0)

\* a - b for a >= b
RECURSIVE BSubFrom(_, _, _, _)
BSubFrom(a, b, i, borrow) ==
    IF i > Len(a) THEN <<>>
    ELSE LET t == a[i] - BLimb(b, i) - borrow
         IN IF t < 0 THEN <<t + LimbBase>> \o BSubFrom(a, b, i + 1, 1)
            ELSE <<t>> \o BSubFrom(a, b, i + 1, 0)

BSub(a, b) == BTrim(BSubFrom(a, b, 1, 0))

\* -1, 0, 1
RECURSIVE BCmpFrom(_, _, _)
BCmpFrom(a, b, i) ==
    IF i = 0 THEN 0
    ELSE IF a[i] < b[i] THEN -1 ELSE IF a[i] > b[i] THEN 1 ELSE BCmpFrom(a, b, i - 1)

BCmp(a, b) ==
    IF Len(a) < Len(b) THEN -1 ELSE IF Len(a) > Len(b) THEN 1 ELSE BCmpFrom(a, b, Len(a))

RECURSIVE BMulSmallFrom(_, _, _, _)
BMulSmallFrom(a, m, i, carry) ==
    IF i > Len(a) THEN (IF carry = 0 THEN <<>> ELSE <<carry>>)
    ELSE LET t == a[i] * m + carry
         IN <<t % LimbBase>> \o BMulSmallFrom(a, m, i + 1, t \div LimbBase)

BMulSmall(a, m) == IF m = 0 THEN <<>> ELSE BMulSmallFrom(a, m, 1, 0)

Zeros(n) == [i \in 1..n |-> 0]

RECURSIVE BMulFrom(_, _, _)
BMulFrom(a, b, i) ==
    IF i > Len(b) THEN <<>>
    ELSE BAdd(IF b[i] = 0 THEN <<>> ELSE Zeros(i - 1) \o BMulSmall(a, b[i]),
              BMulFrom(a, b, i + 1))

BMul(a, b) == IF a = <<>> \/ b = <<>> THEN <<>> ELSE BMulFrom(a, b, 1)

\* a divided by m, 0 < m <= LimbBase: [q, r]
RECURSIVE BDivSmallFrom(_, _, _, _, _)
BDivSmallFrom(a, m, i, rem, q) ==
    IF i = 0 THEN [q |-> BTrim(q), r |-> rem]
    ELSE BDivSmallFrom(a, m, i - 1, (rem * LimbBase + a[i]) % m,
                       <<(rem * LimbBase + a[i]) \div m>> \o q)

BDivSmall(a, m) == BDivSmallFrom(a, m, Len(a), 0, <<>>)

BShl(a, k) ==
    IF a = <<>> THEN a ELSE Zeros(k \div LimbBits) \o BMulSmall(a, Pow2(k % LimbBits))

BShrOf(low, d) ==
    [q |-> d.q, sticky |-> d.r # 0 \/ \E i \in 1..Len(low) : low[i] # 0]

\* a shifted right by k bits: [q, sticky], sticky when a one was shifted out
BShr(a, k) ==
    BShrOf(SubSeq(a, 1, IF k \div LimbBits < Len(a) THEN k \div LimbBits ELSE Len(a)),
           BDivSmall(SubSeq(a, k \div LimbBits + 1, Len(a)), Pow2(k % LimbBits)))

RECURSIVE NatBitLen(_)
NatBitLen(n) == IF n = 0 THEN 0 ELSE 1 + NatBitLen(n \div 2)

BBitLen(a) == IF a = <<>> THEN 0 ELSE LimbBits * (Len(a) - 1) + NatBitLen(a[Len(a)])

BIsOdd(a) == a # <<>> /\ a[1] % 2 = 1

RECURSIVE NatTrailingZeros(_)
NatTrailingZeros(n) == IF n % 2 = 1 THEN 0 ELSE 1 + NatTrailingZeros(n \div 2)

RECURSIVE BTrailingZeros(_, _)
BTrailingZeros(a, i) ==
    IF a[i] = 0 THEN LimbBits + BTrailingZeros(a, i + 1) ELSE NatTrailingZeros(a[i])

\* the significand of a Python float (IEEE 754 binary64) has 53 bits
MantissaBits == 53

\* the float (-1)^neg * m * 2^e with m odd, or zero
PyFloat(neg, m, e) == [t |-> "float", neg |-> neg, m |-> m, e |-> e]

CanonicalOf(neg, n, e, z) == PyFloat(neg, BShr(n, z).q, e + z)

Canonical(neg, n, e) ==
    IF n = <<>> THEN PyFloat(neg, <<>>, 0)
    ELSE CanonicalOf(neg, n, e, BTrailingZeros(n, 1))

\* q or q + 1: to nearest, ties to even
RoundHalfEven(neg, q, guard, sticky, e) ==
    Canonical(neg, IF guard /\ (sticky \/ BIsOdd(q)) THEN BAdd(q, <<1>>) ELSE q, e)

\* s is the value shifted so that one bit is left below the 53 kept
RoundGuarded(neg, s, sticky, e) ==
    RoundHalfEven(neg, BShr(s.q, 1).q, BIsOdd(s.q), s.sticky \/ sticky, e)

\* n * 2^e (and a little more when sticky) rounded to nearest, ties to even
RoundToDouble(neg, n, e, sticky) ==
    IF BBitLen(n) <= MantissaBits THEN Canonical(neg, n, e)
    ELSE RoundGuarded(neg, BShr(n, BBitLen(n) - MantissaBits - 1), sticky,
                      e + BBitLen(n) - MantissaBits)

RECURSIVE Pow10(_)
Pow10(k) == IF k = 0 THEN 1 ELSE 10 * Pow10(k - 1)

FloatLiteralOf(d, e) == RoundToDouble(FALSE, d.q, e, d.r # 0)

\* the float a literal digits / 10^scale denotes, scale <= 4: the quotient
\* carried to 80 binary places, then rounded
FloatLiteral(digits, scale) ==
    FloatLiteralOf(BDivSmall(BShl(BFromNat(digits), 80), Pow10(scale)), -80)

FloatFromInt(n) == Canonical(n < 0, BFromNat(IF n < 0 THEN -n ELSE n), 0)

FloatMul(a, b) == RoundToDouble(a.neg # b.neg, BMul(a.m, b.m), a.e + b.e, FALSE)

FloatNeg(a) == PyFloat(~a.neg, a.m, a.e)

FloatAddOrdered(aneg, A, bneg, B, c, e) ==
    IF c = 0 THEN PyFloat(FALSE, <<>>, 0)
    ELSE IF c > 0 THEN RoundToDouble(aneg, BSub(A, B), e, FALSE)
    ELSE RoundToDouble(bneg, BSub(B, A), e, FALSE)

\* A * 2^e and B * 2^e with their signs, added
FloatAddAligned(aneg, A, bneg, B, e) ==
    IF aneg = bneg THEN RoundToDouble(aneg, BAdd(A, B), e, FALSE)
    ELSE FloatAddOrdered(aneg, A, bneg, B, BCmp(A, B), e)

FloatAddAt(a, b, e) ==
    FloatAddAligned(a.neg, BShl(a.m, a.e - e), b.neg, BShl(b.m, b.e - e), e)

FloatAdd(a, b) == FloatAddAt(a, b, IF a.e <= b.e THEN a.e ELSE b.e)

FloatSub(a, b) == FloatAdd(a, FloatNeg(b))

ToFloat(v) == IF v.t = "int" THEN FloatFromInt(v.n) ELSE v

\* x * y for numbers
PyMul(x, y) ==
    IF x.t = "int" /\ y.t = "int" THEN PyInt(x.n * y.n)
    ELSE FloatMul(ToFloat(x), ToFloat(y))

\* x - y for numbers
PySub(x, y) ==
    IF x.t = "int" /\ y.t = "int" THEN PyInt(x.n - y.n)
    ELSE FloatSub(ToFloat(x), ToFloat(y))

\* x + y for numbers
PyAdd(x, y) ==
    IF x.t = "int" /\ y.t = "int" THEN PyInt(x.n + y.n)
    ELSE FloatAdd(ToFloat(x), ToFloat(y))

\* -1, 0 or 1 as the float d is below, at or above zero
FloatSign(d) == IF d.m = <<>> THEN 0 ELSE IF d.neg THEN -1 ELSE 1

\* x <= y and x == y for numbers: the sign of the difference
PyLe(x, y) ==
    IF x.t = "int" /\ y.t = "int" THEN x.n <= y.n
    ELSE FloatSign(FloatSub(ToFloat(x), ToFloat(y))) <= 0

PyEq(x, y) ==
    IF x.t = "int" /\ y.t = "int" THEN x.n = y.n
    ELSE FloatSign(FloatSub(ToFloat(x), ToFloat(y))) = 0

\* |a| * 2^k
FloatAbsScaled(a, k) == IF a.m = <<>> THEN a ELSE PyFloat(FALSE, a.m, a.e + k)

Digit(n) == CASE n = 0 -> "0" [] n = 1 -> "1" [] n = 2 -> "2" [] n = 3 -> "3"
              [] n = 4 -> "4" [] n = 5 -> "5" [] n = 6 -> "6" [] n = 7 -> "7"
              [] n = 8 -> "8" [] n = 9 -> "9"

RECURSIVE NatToStr(_)
NatToStr(n) == IF n < 10 THEN Digit(n) ELSE NatToStr(n \div 10) \o Digit(n % 10)

IntToStr(n) == IF n < 0 THEN "-" \o NatToStr(-n) ELSE NatToStr(n)

\* format(v, ""): what an f-string writes for {v}
Format(v) ==
    CASE v.t = "str" -> v.s
      [] v.t = "int" -> IntToStr(v.n)
      [] v.t = "bool" -> (IF v.b THEN "True" ELSE "False")
      [] v.t = "None" -> "None"

\* bool(v): the truth value an `if` or an `and` tests
Truthy(v) ==
    CASE v.t = "str" -> v.s # ""
      [] v.t = "int" -> v.n # 0
      [] v.t = "float" -> v.m # <<>>
      [] v.t = "bool" -> v.b
      [] v.t = "None" -> FALSE
      [] OTHER -> TRUE

(***************************************************************************)
(* Outcomes of a call: a returned value or a raised exception, with the    *)
(* heap after the call, the method calls made and the lines printed.       *)
(***************************************************************************)
Ret(h, v) ==
    [outcome |-> [kind |-> "return", value |-> v, exc |-> ""],
     heap |-> h, calls |-> <<>>, out |-> <<>>]

Raise(h, exc, msg) ==
    [outcome |-> [kind |-> "raise", value |-> PyStr(msg), exc |-> exc],
     heap |-> h, calls |-> <<>>, out |-> <<>>]

Raised(r) == r.outcome.kind = "raise"

\* r with the calls and the output of an earlier step put in front of its own
After(pre, r) == [r EXCEPT !.calls = pre.calls \o @, !.out = pre.out \o @]

\* print(line), then the rest
Emit(line, r) == [r EXCEPT !.out = <<line>> \o @]

\* a statement that completed after r: r's effects, nothing returned
Completed(r) == [r EXCEPT !.outcome = [kind |-> "return", value |-> PyNone, exc |-> ""]]

\* print(line) after r
EmitAfter(r, line) == [Completed(r) EXCEPT !.out = @ \o <<line>>]

\* print(f"{prefix}{call}"), r the outcome of the call: an exception leaves
PrintCall(prefix, r) ==
    IF Raised(r) THEN r ELSE EmitAfter(r, prefix \o Format(r.outcome.value))

\* a handler that lets the exception go on
ExceptException_reraising(r) == r

\* except Exception as e: print(f"ERROR: {e}"), r the raised outcome; every
\* exception of these files derives from Exception
ExceptException(r) == EmitAfter(r, "ERROR: " \o r.outcome.value.s)

\* try: call, r its outcome; except Exception as e: print(f"ERROR: {e}")
TryCall(r) == IF Raised(r) THEN ExceptException(r) ELSE Completed(r)

\* try: result = call; print(f"Result: {result}"); except Exception as e: ...
TryPrintCall(r) ==
    IF Raised(r) THEN ExceptException(r)
    ELSE EmitAfter(r, "Result: " \o Format(r.outcome.value))

\* a frame that returned to a caller with heap h: its locals are unreachable
Scoped(h, r) == [r EXCEPT !.heap = h]

(***************************************************************************)
(* The classes of the five files.                                          *)
(***************************************************************************)
NoClass == ""

Modules ==
    {"dependency_inversion", "liskov_substitution", "interface_segregation",
     "single_responsibility", "open_closed"}

ModuleClasses(m) ==
    CASE m = "dependency_inversion" ->
            {"GmailClient", "EmailService", "EmailClient", "GmailClientGood",
             "OutlookClient", "YahooClient", "EmailServiceGood"}
      [] m = "liskov_substitution" ->
            {"Bird", "Sparrow", "Penguin", "FlyingBird", "FlightlessBird",
             "SparrowGood", "Eagle", "PenguinGood", "Ostrich"}
      [] m = "interface_segregation" ->
            {"MediaPlayer", "MP3Player", "MoviePlayer", "AudioPlayer", "VideoPlayer",
             "MP3PlayerGood", "MoviePlayerGood"}
      [] m = "single_responsibility" ->
            {"UserManager", "UserAuthenticator", "UserProfileManager",
             "EmailNotificationService"}
      [] m = "open_closed" ->
            {"DiscountCalculator", "Discount", "RegularCustomerDiscount",
             "PremiumCustomerDiscount", "VIPCustomerDiscount", "StudentDiscount",
             "SeniorCitizenDiscount", "PriceCalculator"}

Base(c) ==
    CASE c \in {"GmailClientGood", "OutlookClient", "YahooClient"} -> "EmailClient"
      [] c \in {"Sparrow", "Penguin"} -> "Bird"
      [] c \in {"SparrowGood", "Eagle"} -> "FlyingBird"
      [] c \in {"PenguinGood", "Ostrich"} -> "FlightlessBird"
      [] c \in {"MP3Player", "MoviePlayer"} -> "MediaPlayer"
      [] c = "MP3PlayerGood" -> "AudioPlayer"
      [] c = "MoviePlayerGood" -> "VideoPlayer"
      [] c \in {"RegularCustomerDiscount", "PremiumCustomerDiscount",
                "VIPCustomerDiscount", "StudentDiscount", "SeniorCitizenDiscount"} ->
            "Discount"
      [] c = "object" -> NoClass
      [] OTHER -> "object"

Defines(c) ==
    CASE c = "object" -> {"__init__"}
      [] c = "GmailClient" -> {"send_email"}
      [] c = "EmailService" -> {"__init__", "send_email"}
      [] c = "EmailClient" -> {"send_email"}
      [] c \in {"GmailClientGood", "OutlookClient", "YahooClient"} -> {"send_email"}
      [] c = "EmailServiceGood" -> {"__init__", "send_email", "send_welcome_email"}
      [] c \in {"Bird", "Sparrow", "Penguin", "FlyingBird", "SparrowGood", "Eagle"} ->
            {"fly"}
      [] c \in {"FlightlessBird", "PenguinGood", "Ostrich"} -> {"walk"}
      [] c \in {"MediaPlayer", "MP3Player", "MoviePlayer"} ->
            {"play_audio", "play_video", "stop_video", "adjust_video_brightness"}
      [] c \in {"AudioPlayer", "MP3PlayerGood"} -> {"play_audio"}
      [] c \in {"VideoPlayer", "MoviePlayerGood"} ->
            {"play_video", "stop_video", "adjust_video_brightness"}
      [] c \in {"UserManager", "UserAuthenticator"} -> {"authenticate_user"}
      [] c = "DiscountCalculator" -> {"calculate_discount"}
      [] c \in {"Discount", "RegularCustomerDiscount", "PremiumCustomerDiscount",
                "VIPCustomerDiscount", "StudentDiscount", "SeniorCitizenDiscount"} ->
            {"calculate"}
      [] c = "PriceCalculator" -> {"calculate_final_price"}
      [] OTHER -> {}

\* the class along c's bases that defines name, NoClass when none does
RECURSIVE Resolve(_, _)
Resolve(c, name) ==
    IF c = NoClass THEN NoClass
    ELSE IF name \in Defines(c) THEN c
    ELSE Resolve(Base(c), name)

RECURSIVE IsSubclass(_, _)
IsSubclass(c, b) ==
    IF c = NoClass THEN FALSE ELSE IF c = b THEN TRUE ELSE IsSubclass(Base(c), b)

\* type(v).__name__
TypeOf(h, v) ==
    CASE v.t = "ref" -> v.id[1]
      [] v.t = "None" -> "NoneType"
      [] OTHER -> v.t

(***************************************************************************)
(* Instance dictionaries.                                                  *)
(***************************************************************************)
\* an instance dictionary is the sequence of its <<name, value>> pairs
HasAttr(h, self, name) == \E k \in 1..Len(h[self.id]) : h[self.id][k][1] = name

AttrValue(h, self, name) ==
    LET k == CHOOSE j \in 1..Len(h[self.id]) : h[self.id][j][1] = name
    IN h[self.id][k][2]

\* self.name as an expression
GetAttr(h, self, name) ==
    IF HasAttr(h, self, name) THEN Ret(h, AttrValue(h, self, name))
    ELSE Raise(h, "AttributeError",
               "'" \o TypeOf(h, self) \o "' object has no attribute '" \o name \o "'")

\* self.name = v
SetAttr(h, self, name, v) ==
    LET d == h[self.id] IN
    IF HasAttr(h, self, name)
    THEN [h EXCEPT ![self.id] =
            [k \in 1..Len(d) |-> IF d[k][1] = name THEN <<name, v>> ELSE d[k]]]
    ELSE [h EXCEPT ![self.id] = Append(d, <<name, v>>)]

RECURSIVE CallMethod(_, _, _, _, _)
RECURSIVE New(_, _, _, _)

(***************************************************************************)
(* src/dependency_inversion.py                                             *)
(***************************************************************************)
GmailClient_send_email(h, self, message) ==
    Ret(h, PyStr("Sending via Gmail: " \o Format(message)))

\* self.gmail_client = g, g the outcome of GmailClient()
EmailService___init___assign(self, g) ==
    IF Raised(g) THEN g
    ELSE After(g, Ret(SetAttr(g.heap, self, "gmail_client", g.outcome.value), PyNone))

EmailService___init__(h, self, d) ==
    EmailService___init___assign(self, New(h, "GmailClient", <<>>, d))

EmailService_send_email(h, self, message, d) ==
    LET g == GetAttr(h, self, "gmail_client") IN
    IF Raised(g) THEN g
    ELSE CallMethod(h, g.outcome.value, "send_email", <<message>>, d)

EmailClient_send_email(h, self, message) ==
    Raise(h, "NotImplementedError", "Must implement send_email method")

GmailClientGood_send_email(h, self, message) ==
    Ret(h, PyStr("Sending via Gmail: " \o Format(message)))

\* OutlookClient copied from GmailClientGood with the prefix left as it was
OutlookClient_send_email_copied(h, self, message) ==
    Ret(h, PyStr("Sending via Gmail: " \o Format(message)))

OutlookClient_send_email(h, self, message) ==
    Ret(h, PyStr("Sending via Outlook: " \o Format(message)))

\* YahooClient without its own send_email: the inherited placeholder runs
YahooClient_send_email_inherited(h, self, message) ==
    EmailClient_send_email(h, self, message)

YahooClient_send_email(h, self, message) ==
    Ret(h, PyStr("Sending via Yahoo: " \o Format(message)))

\* a constructor that checks its argument against the EmailClient contract
EmailServiceGood___init___checked(h, self, email_client) ==
    IF Resolve(TypeOf(h, email_client), "send_email") \in {NoClass, "EmailClient"}
    THEN Raise(h, "ContractViolation", "email_client does not implement send_email")
    ELSE Ret(SetAttr(h, self, "email_client", email_client), PyNone)

\* email_client kept on the class: every client sees the delegate set last
EmailServiceGood___init___shared(h, self, email_client) ==
    Ret([i \in DOMAIN h |->
            IF i[1] = "EmailServiceGood" THEN <<<<"email_client", email_client>>>>
            ELSE h[i]],
        PyNone)

EmailServiceGood___init__(h, self, email_client) ==
    Ret(SetAttr(h, self, "email_client", email_client), PyNone)

\* a send that is retried once: the delegate is called twice
EmailServiceGood_send_email_retried(h, self, message, d) ==
    LET g == GetAttr(h, self, "email_client") IN
    IF Raised(g) THEN g
    ELSE LET first == CallMethod(h, g.outcome.value, "send_email", <<message>>, d)
         IN After(first, CallMethod(first.heap, g.outcome.value, "send_email",
                                    <<message>>, d))

\* a send that drops the delegate once it has been used
EmailServiceGood_send_email_releasing(h, self, message, d) ==
    LET g == GetAttr(h, self, "email_client") IN
    IF Raised(g) THEN g
    ELSE LET r == CallMethod(h, g.outcome.value, "send_email", <<message>>, d)
         IN [r EXCEPT !.heap = SetAttr(r.heap, self, "email_client", PyNone)]

EmailServiceGood_send_email(h, self, message, d) ==
    LET g == GetAttr(h, self, "email_client") IN
    IF Raised(g) THEN g
    ELSE CallMethod(h, g.outcome.value, "send_email", <<message>>, d)

EmailServiceGood_send_welcome_email_on(g, message, d) ==
    IF Raised(g) THEN g
    ELSE After(g, CallMethod(g.heap, g.outcome.value, "send_email", <<message>>, d))

\* a welcome that goes out through a Gmail sender of its own
EmailServiceGood_send_welcome_email_via_gmail(h, self, user_email, d) ==
    Scoped(h, EmailServiceGood_send_welcome_email_on(
                  New(h, "GmailClientGood", <<>>, d),
                  PyStr("Welcome to our service! Sent to: " \o Format(user_email)), d))

EmailServiceGood_send_welcome_email(h, self, user_email, d) ==
    LET message == PyStr("Welcome to our service! Sent to: " \o Format(user_email))
    IN CallMethod(h, self, "send_email", <<message>>, d)

(***************************************************************************)
(* src/solid-principles/liskov_substitution.py                             *)
(***************************************************************************)
Bird_fly(h, self) == Ret(h, PyStr("Flying high in the sky!"))

Sparrow_fly(h, self) == Ret(h, PyStr("Sparrow flying fast!"))

Penguin_fly(h, self) == Raise(h, "Exception", "Penguins can't fly!")

make_bird_fly_bad(h, bird, d) == CallMethod(h, bird, "fly", <<>>, d)

RECURSIVE demonstrate_lsp_violation_for(_, _, _)

\* the loop after the body ran for one bird with outcome r
demonstrate_lsp_violation_next(r, birds, d) ==
    IF Raised(r) THEN r ELSE After(r, demonstrate_lsp_violation_for(r.heap, birds, d))

\* for bird in birds: try ... except ...
demonstrate_lsp_violation_for(h, birds, d) ==
    IF birds = <<>> THEN Ret(h, PyNone)
    ELSE demonstrate_lsp_violation_next(
             TryPrintCall(make_bird_fly_bad(h, Head(birds), d + 1)), Tail(birds), d)

\* the two prints after the loop
demonstrate_lsp_violation_end(r) ==
    IF Raised(r) THEN r
    ELSE EmitAfter(EmitAfter(r, "Problem: Penguin breaks the system because it can't fly!"),
                   "")

\* birds = [sparrow, penguin] and the loop, p the outcome of Penguin()
demonstrate_lsp_violation_birds(sparrow, p, d) ==
    IF Raised(p) THEN p
    ELSE After(p, demonstrate_lsp_violation_end(
                      demonstrate_lsp_violation_for(p.heap, <<sparrow, p.outcome.value>>, d)))

\* penguin = Penguin() and the rest, s the outcome of Sparrow()
demonstrate_lsp_violation_penguin(s, d) ==
    IF Raised(s) THEN s
    ELSE After(s, demonstrate_lsp_violation_birds(
                      s.outcome.value, New(s.heap, "Penguin", <<>>, d), d))

demonstrate_lsp_violation(h, d) ==
    Scoped(h, Emit("=== VIOLATING LSP (BAD WAY) ===",
                   demonstrate_lsp_violation_penguin(New(h, "Sparrow", <<>>, d), d)))

FlyingBird_fly(h, self) == Ret(h, PyStr("Flying through the air!"))

FlightlessBird_walk(h, self) == Ret(h, PyStr("Walking on the ground!"))

SparrowGood_fly(h, self) == Ret(h, PyStr("Sparrow flying quickly!"))

Eagle_fly(h, self) == Ret(h, PyStr("Eagle soaring majestically!"))

PenguinGood_walk(h, self) == Ret(h, PyStr("Penguin waddling on ice!"))

Ostrich_walk(h, self) == Ret(h, PyStr("Ostrich running very fast!"))

\* make_flying_bird_fly falling back to walk() for a bird that has no fly()
make_flying_bird_fly_or_walk(h, flying_bird, d) ==
    IF Resolve(TypeOf(h, flying_bird), "fly") = NoClass
    THEN CallMethod(h, flying_bird, "walk", <<>>, d)
    ELSE CallMethod(h, flying_bird, "fly", <<>>, d)

make_flying_bird_fly(h, flying_bird, d) == CallMethod(h, flying_bird, "fly", <<>>, d)

make_flightless_bird_walk(h, flightless_bird, d) ==
    CallMethod(h, flightless_bird, "walk", <<>>, d)

(***************************************************************************)
(* src/interface_segregation.py                                            *)
(***************************************************************************)
MediaPlayer_play_audio(h, self) ==
    Raise(h, "NotImplementedError", "Must implement play_audio")

MediaPlayer_play_video(h, self) ==
    Raise(h, "NotImplementedError", "Must implement play_video")

MediaPlayer_stop_video(h, self) ==
    Raise(h, "NotImplementedError", "Must implement stop_video")

MediaPlayer_adjust_video_brightness(h, self) ==
    Raise(h, "NotImplementedError", "Must implement adjust_video_brightness")

MP3Player_play_audio(h, self) == Ret(h, PyStr("Playing MP3 music..."))

MP3Player_play_video(h, self) == Raise(h, "Exception", "MP3 Player cannot play video!")

MP3Player_stop_video(h, self) ==
    Raise(h, "Exception", "MP3 Player has no video to stop!")

MP3Player_adjust_video_brightness(h, self) ==
    Raise(h, "Exception", "MP3 Player cannot adjust video brightness!")

MoviePlayer_play_video(h, self) ==
    Ret(h, PyStr("Playing movie in high definition..."))

MoviePlayer_stop_video(h, self) == Ret(h, PyStr("Movie playback stopped"))

MoviePlayer_adjust_video_brightness(h, self) ==
    Ret(h, PyStr("Video brightness adjusted"))

MoviePlayer_play_audio(h, self) ==
    Raise(h, "Exception", "Movie Player cannot play audio!")

AudioPlayer_play_audio(h, self) ==
    Raise(h, "NotImplementedError", "Must implement play_audio")

VideoPlayer_play_video(h, self) ==
    Raise(h, "NotImplementedError", "Must implement play_video")

VideoPlayer_stop_video(h, self) ==
    Raise(h, "NotImplementedError", "Must implement stop_video")

VideoPlayer_adjust_video_brightness(h, self) ==
    Raise(h, "NotImplementedError", "Must implement adjust_video_brightness")

MP3PlayerGood_play_audio(h, self) ==
    Ret(h, PyStr("Playing MP3 music with high quality sound..."))

MoviePlayerGood_play_video(h, self) ==
    Ret(h, PyStr("Playing movie with excellent quality..."))

\* MoviePlayerGood with stop_video left as the interface's placeholder
MoviePlayerGood_stop_video_placeholder(h, self) == VideoPlayer_stop_video(h, self)

MoviePlayerGood_stop_video(h, self) == Ret(h, PyStr("Movie playback stopped"))

MoviePlayerGood_adjust_video_brightness(h, self) ==
    Ret(h, PyStr("Movie brightness adjusted for perfect viewing"))

\* the two prints at the end
demonstrate_isp_violation_end(r) ==
    IF Raised(r) THEN r
    ELSE EmitAfter(EmitAfter(r, "Problem: Players forced to implement methods they don't support!"),
                   "")

\* try: movie_player.play_audio() ..., r the outcome of the print before it
demonstrate_isp_violation_try_audio(movie_player, r, d) ==
    IF Raised(r) THEN r
    ELSE After(r, demonstrate_isp_violation_end(
                      TryCall(CallMethod(r.heap, movie_player, "play_audio", <<>>, d))))

\* print(f"Movie Player: {movie_player.play_video()}"), r the outcome of the
\* try before it
demonstrate_isp_violation_movie(movie_player, r, d) ==
    IF Raised(r) THEN r
    ELSE After(r, demonstrate_isp_violation_try_audio(
                      movie_player,
                      PrintCall("Movie Player: ",
                                CallMethod(r.heap, movie_player, "play_video", <<>>, d)),
                      d))

\* try: mp3_player.play_video() ..., r the outcome of the print before it
demonstrate_isp_violation_try_video(mp3_player, movie_player, r, d) ==
    IF Raised(r) THEN r
    ELSE After(r, demonstrate_isp_violation_movie(
                      movie_player,
                      TryCall(CallMethod(r.heap, mp3_player, "play_video", <<>>, d)), d))

\* print(f"MP3 Player: {mp3_player.play_audio()}"), m the outcome of MoviePlayer()
demonstrate_isp_violation_mp3(mp3_player, m, d) ==
    IF Raised(m) THEN m
    ELSE After(m, demonstrate_isp_violation_try_video(
                      mp3_player, m.outcome.value,
                      PrintCall("MP3 Player: ",
                                CallMethod(m.heap, mp3_player, "play_audio", <<>>, d)),
                      d))

\* movie_player = MoviePlayer() and the rest, p the outcome of MP3Player()
demonstrate_isp_violation_players(p, d) ==
    IF Raised(p) THEN p
    ELSE After(p, demonstrate_isp_violation_mp3(
                      p.outcome.value, New(p.heap, "MoviePlayer", <<>>, d), d))

demonstrate_isp_violation(h, d) ==
    Scoped(h, Emit("=== VIOLATING ISP (BAD WAY) ===",
                   demonstrate_isp_violation_players(New(h, "MP3Player", <<>>, d), d)))

(***************************************************************************)
(* src/solid-principles/single_responsibility.py: the two authenticate_user *)
(* methods (the other methods of the file only print).                     *)
(***************************************************************************)
UserManager_authenticate_user(h, self, username, password) ==
    Emit("Authenticating user: " \o Format(username),
          IF Truthy(username) /\ Truthy(password)
          THEN Emit("User authenticated successfully", Ret(h, PyBool(TRUE)))
          ELSE Emit("Authentication failed", Ret(h, PyBool(FALSE))))

\* authenticate_user with `or` where the code has `and`
UserAuthenticator_authenticate_user_either(h, self, username, password) ==
    Emit("Authenticating user: " \o Format(username),
          IF Truthy(username) \/ Truthy(password)
          THEN Emit("User authenticated successfully", Ret(h, PyBool(TRUE)))
          ELSE Emit("Authentication failed", Ret(h, PyBool(FALSE))))

UserAuthenticator_authenticate_user(h, self, username, password) ==
    Emit("Authenticating user: " \o Format(username),
          IF Truthy(username) /\ Truthy(password)
          THEN Emit("User authenticated successfully", Ret(h, PyBool(TRUE)))
          ELSE Emit("Authentication failed", Ret(h, PyBool(FALSE))))

(***************************************************************************)
(* src/open_closed.py                                                      *)
(***************************************************************************)
\* the float literals of the file: 0.0, 0.1, 0.2, 0.15, 0.25
Float_0_0 == FloatLiteral(0, 1)

Float_0_1 == FloatLiteral(1, 1)

Float_0_2 == FloatLiteral(2, 1)

Float_0_15 == FloatLiteral(15, 2)

Float_0_25 == FloatLiteral(25, 2)

\* a calculator whose vip branch was lost
DiscountCalculator_calculate_discount_without_vip(h, self, customer_type, amount) ==
    IF customer_type = PyStr("regular") THEN Ret(h, PyMul(amount, Float_0_0))
    ELSE IF customer_type = PyStr("premium") THEN Ret(h, PyMul(amount, Float_0_1))
    ELSE Ret(h, PyInt(0))

DiscountCalculator_calculate_discount(h, self, customer_type, amount) ==
    IF customer_type = PyStr("regular") THEN Ret(h, PyMul(amount, Float_0_0))
    ELSE IF customer_type = PyStr("premium")
    THEN Ret(h, PyMul(amount, Float_0_1))
    ELSE IF customer_type = PyStr("vip") THEN Ret(h, PyMul(amount, Float_0_2))
    ELSE Ret(h, PyInt(0))

Discount_calculate(h, self, amount) ==
    Raise(h, "NotImplementedError", "Must implement calculate method")

RegularCustomerDiscount_calculate(h, self, amount) ==
    Ret(h, PyMul(amount, Float_0_0))

PremiumCustomerDiscount_calculate(h, self, amount) ==
    Ret(h, PyMul(amount, Float_0_1))

VIPCustomerDiscount_calculate(h, self, amount) ==
    Ret(h, PyMul(amount, Float_0_2))

StudentDiscount_calculate(h, self, amount) ==
    Ret(h, PyMul(amount, Float_0_15))

SeniorCitizenDiscount_calculate(h, self, amount) ==
    Ret(h, PyMul(amount, Float_0_25))

PriceCalculator_calculate_final_price_once(self, amount, r) ==
    IF Raised(r) THEN r
    ELSE IF HasAttr(r.heap, self, "granted")
    THEN After(r, Ret(r.heap, PyTuple(<<amount, PyInt(0)>>)))
    ELSE After(r, Ret(SetAttr(r.heap, self, "granted", PyBool(TRUE)),
                      PyTuple(<<PySub(amount, r.outcome.value), r.outcome.value>>)))

\* a calculator that grants a discount once and remembers that it did
PriceCalculator_calculate_final_price_capped(h, self, amount, discount, d) ==
    PriceCalculator_calculate_final_price_once(
        self, amount, CallMethod(h, discount, "calculate", <<amount>>, d))

\* a calculator that returns its pair the other way round
PriceCalculator_calculate_final_price_return_swapped(amount, r) ==
    IF Raised(r) THEN r
    ELSE After(r, Ret(r.heap, PyTuple(<<r.outcome.value,
                                       PySub(amount, r.outcome.value)>>)))

\* the rest of calculate_final_price, r the outcome of discount.calculate(amount)
PriceCalculator_calculate_final_price_return(amount, r) ==
    IF Raised(r) THEN r
    ELSE After(r, Ret(r.heap, PyTuple(<<PySub(amount, r.outcome.value),
                                       r.outcome.value>>)))

PriceCalculator_calculate_final_price(h, self, amount, discount, d) ==
    PriceCalculator_calculate_final_price_return(
        amount, CallMethod(h, discount, "calculate", <<amount>>, d))

(***************************************************************************)
(* Calls.                                                                  *)
(***************************************************************************)
\* object.__init__: takes no arguments
object___init__(h, self, args) ==
    IF args = <<>> THEN Ret(h, PyNone)
    ELSE Raise(h, "TypeError", TypeOf(h, self) \o "() takes no arguments")

\* the body of method name as class c defines it, run at call depth d
Body(c, name, h, self, args, d) ==
    CASE c = "object" /\ name = "__init__" -> object___init__(h, self, args)
      [] c = "GmailClient" /\ name = "send_email" ->
            GmailClient_send_email(h, self, args[1])
      [] c = "EmailService" /\ name = "__init__" -> EmailService___init__(h, self, d)
      [] c = "EmailService" /\ name = "send_email" ->
            EmailService_send_email(h, self, args[1], d)
      [] c = "EmailClient" /\ name = "send_email" ->
            EmailClient_send_email(h, self, args[1])
      [] c = "GmailClientGood" /\ name = "send_email" ->
            GmailClientGood_send_email(h, self, args[1])
      [] c = "OutlookClient" /\ name = "send_email" ->
            OutlookClient_send_email(h, self, args[1])
      [] c = "YahooClient" /\ name = "send_email" ->
            YahooClient_send_email(h, self, args[1])
      [] c = "EmailServiceGood" /\ name = "__init__" ->
            EmailServiceGood___init__(h, self, args[1])
      [] c = "EmailServiceGood" /\ name = "send_email" ->
            EmailServiceGood_send_email(h, self, args[1], d)
      [] c = "EmailServiceGood" /\ name = "send_welcome_email" ->
            EmailServiceGood_send_welcome_email(h, self, args[1], d)
      [] c = "Bird" /\ name = "fly" -> Bird_fly(h, self)
      [] c = "Sparrow" /\ name = "fly" -> Sparrow_fly(h, self)
      [] c = "Penguin" /\ name = "fly" -> Penguin_fly(h, self)
      [] c = "FlyingBird" /\ name = "fly" -> FlyingBird_fly(h, self)
      [] c = "FlightlessBird" /\ name = "walk" -> FlightlessBird_walk(h, self)
      [] c = "SparrowGood" /\ name = "fly" -> SparrowGood_fly(h, self)
      [] c = "Eagle" /\ name = "fly" -> Eagle_fly(h, self)
      [] c = "PenguinGood" /\ name = "walk" -> PenguinGood_walk(h, self)
      [] c = "Ostrich" /\ name = "walk" -> Ostrich_walk(h, self)
      [] c = "MediaPlayer" /\ name = "play_audio" -> MediaPlayer_play_audio(h, self)
      [] c = "MediaPlayer" /\ name = "play_video" -> MediaPlayer_play_video(h, self)
      [] c = "MediaPlayer" /\ name = "stop_video" -> MediaPlayer_stop_video(h, self)
      [] c = "MediaPlayer" /\ name = "adjust_video_brightness" ->
            MediaPlayer_adjust_video_brightness(h, self)
      [] c = "MP3Player" /\ name = "play_audio" -> MP3Player_play_audio(h, self)
      [] c = "MP3Player" /\ name = "play_video" -> MP3Player_play_video(h, self)
      [] c = "MP3Player" /\ name = "stop_video" -> MP3Player_stop_video(h, self)
      [] c = "MP3Player" /\ name = "adjust_video_brightness" ->
            MP3Player_adjust_video_brightness(h, self)
      [] c = "MoviePlayer" /\ name = "play_video" -> MoviePlayer_play_video(h, self)
      [] c = "MoviePlayer" /\ name = "stop_video" -> MoviePlayer_stop_video(h, self)
      [] c = "MoviePlayer" /\ name = "adjust_video_brightness" ->
            MoviePlayer_adjust_video_brightness(h, self)
      [] c = "MoviePlayer" /\ name = "play_audio" -> MoviePlayer_play_audio(h, self)
      [] c = "AudioPlayer" /\ name = "play_audio" -> AudioPlayer_play_audio(h, self)
      [] c = "VideoPlayer" /\ name = "play_video" -> VideoPlayer_play_video(h, self)
      [] c = "VideoPlayer" /\ name = "stop_video" -> VideoPlayer_stop_video(h, self)
      [] c = "VideoPlayer" /\ name = "adjust_video_brightness" ->
            VideoPlayer_adjust_video_brightness(h, self)
      [] c = "MP3PlayerGood" /\ name = "play_audio" -> MP3PlayerGood_play_audio(h, self)
      [] c = "MoviePlayerGood" /\ name = "play_video" ->
            MoviePlayerGood_play_video(h, self)
      [] c = "MoviePlayerGood" /\ name = "stop_video" ->
            MoviePlayerGood_stop_video(h, self)
      [] c = "MoviePlayerGood" /\ name = "adjust_video_brightness" ->
            MoviePlayerGood_adjust_video_brightness(h, self)
      [] c = "UserManager" /\ name = "authenticate_user" ->
            UserManager_authenticate_user(h, self, args[1], args[2])
      [] c = "UserAuthenticator" /\ name = "authenticate_user" ->
            UserAuthenticator_authenticate_user(h, self, args[1], args[2])
      [] c = "DiscountCalculator" /\ name = "calculate_discount" ->
            DiscountCalculator_calculate_discount(h, self, args[1], args[2])
      [] c = "Discount" /\ name = "calculate" -> Discount_calculate(h, self, args[1])
      [] c = "RegularCustomerDiscount" /\ name = "calculate" ->
            RegularCustomerDiscount_calculate(h, self, args[1])
      [] c = "PremiumCustomerDiscount" /\ name = "calculate" ->
            PremiumCustomerDiscount_calculate(h, self, args[1])
      [] c = "VIPCustomerDiscount" /\ name = "calculate" ->
            VIPCustomerDiscount_calculate(h, self, args[1])
      [] c = "StudentDiscount" /\ name = "calculate" ->
            StudentDiscount_calculate(h, self, args[1])
      [] c = "SeniorCitizenDiscount" /\ name = "calculate" ->
            SeniorCitizenDiscount_calculate(h, self, args[1])
      [] c = "PriceCalculator" /\ name = "calculate_final_price" ->
            PriceCalculator_calculate_final_price(h, self, args[1], args[2], d)

\* recv.name(*args), made from a frame at depth d - 1
CallMethod(h, recv, name, args, d) ==
    LET cls == TypeOf(h, recv)
        owner == Resolve(cls, name)
        entry == [depth |-> d, recv |-> recv, name |-> name, args |-> args]
    IN IF owner = NoClass
       THEN Raise(h, "AttributeError",
                  "'" \o cls \o "' object has no attribute '" \o name \o "'")
       ELSE LET r == Body(owner, name, h, recv, args, d + 1)
            IN [r EXCEPT !.calls = <<entry>> \o @]

NewOf(h, self, r) ==
    IF Raised(r) THEN [r EXCEPT !.heap = h] ELSE [r EXCEPT !.outcome.value = self]

Allocate(h, self) ==
    [i \in DOMAIN h \cup {self.id} |-> IF i \in DOMAIN h THEN h[i] ELSE <<>>]

NewAt(h, self, args, d) ==
    NewOf(h, self, CallMethod(Allocate(h, self), self, "__init__", args, d))

\* cls(*args): a new object, initialised by __init__; the object of a
\* constructor that raised is dropped
New(h, cls, args, d) ==
    NewAt(h, PyRef(<<cls, Cardinality({i \in DOMAIN h : i[1] = cls}) + 1>>), args, d)

(***************************************************************************)
(* Inputs.                                                                 *)
(***************************************************************************)
Messages == {PyStr("Hello World!"), PyInt(42)}

Usernames == {PyStr("john_doe"), PyStr(""), PyNone}

Passwords == {PyStr("password123"), PyStr(""), PyNone}

\* 100 as in the demonstrations, and a price with cents: 170.85
Amounts == {PyInt(100), FloatLiteral(17085, 2)}

CustomerTypes ==
    {PyStr("regular"), PyStr("premium"), PyStr("vip"), PyStr("student"), PyStr("senior")}

\* the methods without parameters that the callers of a file use
Operations(m) ==
    CASE m = "liskov_substitution" -> {"fly", "walk"}
      [] m = "interface_segregation" ->
            {"play_audio", "play_video", "stop_video", "adjust_video_brightness"}
      [] OTHER -> {}

Objects == {PyRef(i) : i \in DOMAIN heap}

InstancesOf(cls) == {o \in Objects : o.id[1] = cls}

\* what a caller can hand to a constructor expecting a collaborator
Collaborators == Objects \cup {PyNone}

NoCall == [op |-> "", recv |-> PyNone, args |-> <<>>,
           outcome |-> [kind |-> "return", value |-> PyNone, exc |-> ""],
           calls |-> <<>>, out |-> <<>>]

Record(op, recv, args, r) ==
    [op |-> op, recv |-> recv, args |-> args, outcome |-> r.outcome,
     calls |-> r.calls, out |-> r.out]

(***************************************************************************)
(* Top-level statements of a program.                                      *)
(***************************************************************************)
\* x = cls(*args)
Construct(cls, args) ==
    \E r \in {New(heap, cls, args, 0)} :
    /\ Cardinality(DOMAIN r.heap) <= MaxObjects
    /\ heap' = r.heap
    /\ last' = Record(cls, PyNone, args, r)
    /\ UNCHANGED <<module, pinned>>

\* recv.name(*args)
Invoke(recv, name, args) ==
    \E r \in {CallMethod(heap, recv, name, args, 0)} :
    /\ heap' = r.heap
    /\ last' = Record(name, recv, args, r)
    /\ UNCHANGED <<module, pinned>>

NewPlain ==
    \E cls \in ModuleClasses(module) \ {"EmailServiceGood"} : Construct(cls, <<>>)

NewEmailServiceGood ==
    /\ module = "dependency_inversion"
    /\ \E c \in Collaborators : Construct("EmailServiceGood", <<c>>)

SendEmail ==
    /\ module = "dependency_inversion"
    /\ \E o \in InstancesOf("EmailServiceGood"), m \in Messages :
          Invoke(o, "send_email", <<m>>)

SendWelcomeEmail ==
    /\ module = "dependency_inversion"
    /\ \E o \in InstancesOf("EmailServiceGood"), m \in Messages :
          Invoke(o, "send_welcome_email", <<m>>)

\* recv.name() for a method without parameters
CallOperation ==
    \E o \in Objects, name \in Operations(module) : Invoke(o, name, <<>>)

\* f(arg) for a module-level function f
CallFunction(f, arg, r) ==
    /\ heap' = r.heap
    /\ last' = Record(f, PyNone, <<arg>>, r)
    /\ UNCHANGED <<module, pinned>>

MakeBirdFlyBad ==
    /\ module = "liskov_substitution"
    /\ \E o \in Objects :
          CallFunction("make_bird_fly_bad", o, make_bird_fly_bad(heap, o, 1))

MakeFlyingBirdFly ==
    /\ module = "liskov_substitution"
    /\ \E o \in Objects :
          CallFunction("make_flying_bird_fly", o, make_flying_bird_fly(heap, o, 1))

MakeFlightlessBirdWalk ==
    /\ module = "liskov_substitution"
    /\ \E o \in Objects :
          CallFunction("make_flightless_bird_walk", o,
                       make_flightless_bird_walk(heap, o, 1))

\* f() for a module-level function f without parameters
CallProcedure(f, r) ==
    /\ heap' = r.heap
    /\ last' = Record(f, PyNone, <<>>, r)
    /\ UNCHANGED <<module, pinned>>

DemonstrateLspViolation ==
    /\ module = "liskov_substitution"
    /\ CallProcedure("demonstrate_lsp_violation", demonstrate_lsp_violation(heap, 1))

DemonstrateIspViolation ==
    /\ module = "interface_segregation"
    /\ CallProcedure("demonstrate_isp_violation", demonstrate_isp_violation(heap, 1))

AuthenticateUser ==
    /\ module = "single_responsibility"
    /\ \E o \in Objects, u \in Usernames, p \in Passwords :
          Invoke(o, "authenticate_user", <<u, p>>)

CalculateDiscount ==
    /\ module = "open_closed"
    /\ \E c \in InstancesOf("DiscountCalculator"), ct \in CustomerTypes, a \in Amounts :
          Invoke(c, "calculate_discount", <<ct, a>>)

\* what a caller can hand to calculate_final_price as its discount: an
\* instance of Discount or of a subclass, or None
Discounts == {o \in Objects : IsSubclass(o.id[1], "Discount")} \cup {PyNone}

CalculateFinalPrice ==
    /\ module = "open_closed"
    /\ \E c \in InstancesOf("PriceCalculator"), a \in Amounts, disc \in Discounts :
          Invoke(c, "calculate_final_price", <<a, disc>>)

\* keep the last call of a client for comparison with the calls that follow
Pin ==
    /\ \/ last.op = "send_email" /\ last.recv \in InstancesOf("EmailServiceGood")
       \/ last.op = "calculate_final_price"
          /\ last.recv \in InstancesOf("PriceCalculator")
    /\ pinned' = last
    /\ last' = NoCall
    /\ UNCHANGED <<module, heap>>

Init ==
    /\ module \in Modules
    /\ heap = [i \in {} |-> <<>>]
    /\ last = NoCall
    /\ pinned = NoCall

Next ==
    \/ NewPlain
    \/ NewEmailServiceGood
    \/ SendEmail
    \/ SendWelcomeEmail
    \/ CallOperation
    \/ MakeBirdFlyBad
    \/ MakeFlyingBirdFly
    \/ MakeFlightlessBirdWalk
    \/ DemonstrateLspViolation
    \/ DemonstrateIspViolation
    \/ AuthenticateUser
    \/ CalculateDiscount
    \/ CalculateFinalPrice
    \/ Pin

Spec == Init /\ [][Next]_vars

(***************************************************************************)
(* Vocabulary of the properties.                                           *)
(***************************************************************************)
Clients == InstancesOf("EmailServiceGood")

\* the delegate a client holds
Held(h, client) == AttrValue(h, client, "email_client")

\* v is an instance of a concrete sender: a subclass of EmailClient with its
\* own send_email
ImplementsEmailClient(v) ==
    /\ v.t = "ref"
    /\ IsSubclass(v.id[1], "EmailClient")
    /\ Resolve(v.id[1], "send_email") \notin {NoClass, "EmailClient"}

\* v is the abstract EmailClient itself, or has no send_email at all
ViolatesEmailClient(v) ==
    \/ TypeOf(heap, v) = "EmailClient"
    \/ Resolve(TypeOf(heap, v), "send_email") = NoClass

ClientCall == last.op \in {"send_email", "send_welcome_email"} /\ last.recv \in Clients

Returned(call) == call.outcome.kind = "return"

ReturnedStr(call) == Returned(call) /\ call.outcome.value.t = "str"

Threw(call, exc) == call.outcome.kind = "raise" /\ call.outcome.exc = exc

\* the calls a top-level call made itself, not those made further down
DirectCalls(call) == SelectSeq(call.calls, LAMBDA e : e.depth = 1)

(***************************************************************************)
(* C1 as stated: constructing EmailServiceGood with an object that does    *)
(* not satisfy the EmailClient capability fails at construction with a     *)
(* ContractViolation.                                                      *)
(***************************************************************************)
C1_ConstructionRejects ==
    (last.op = "EmailServiceGood" /\ ViolatesEmailClient(last.args[1]))
        => Threw(last, "ContractViolation")

(***************************************************************************)
(* C1 amended: constructing EmailServiceGood never fails and checks        *)
(* nothing, it returns a client that holds the argument as given; a        *)
(* delegate that does not satisfy the capability shows at the first        *)
(* send_email or send_welcome_email call, as a NotImplementedError for an  *)
(* EmailClient base instance and as an AttributeError for an object with   *)
(* no send_email.                                                          *)
(***************************************************************************)
C1_FailureAtCallTime ==
    /\ last.op = "EmailServiceGood" =>
          /\ Returned(last)
          /\ last.outcome.value \in Clients
          /\ Held(heap, last.outcome.value) = last.args[1]
    /\ (ClientCall /\ ViolatesEmailClient(Held(heap, last.recv))) =>
          IF TypeOf(heap, Held(heap, last.recv)) = "EmailClient"
          THEN Threw(last, "NotImplementedError")
          ELSE Threw(last, "AttributeError")

C1_Witness ==
    /\ last.op = "send_email"
    /\ last.recv \in Clients
    /\ TypeOf(heap, Held(heap, last.recv)) = "EmailClient"
    /\ Threw(last, "NotImplementedError")

(***************************************************************************)
(* C2: a client built on any concrete sender (GmailClientGood,             *)
(* OutlookClient, YahooClient) returns a string from send_email and from   *)
(* send_welcome_email, whatever was called before; it raises nothing.      *)
(***************************************************************************)
C2_Substitutable ==
    (ClientCall /\ ImplementsEmailClient(Held(heap, last.recv))) => ReturnedStr(last)

C2_Witness ==
    /\ last.op = "send_welcome_email"
    /\ last.recv \in Clients
    /\ TypeOf(heap, Held(heap, last.recv)) = "YahooClient"
    /\ ReturnedStr(last)

(***************************************************************************)
(* C3: send_email of a client makes exactly one call of its own, the       *)
(* delegate's send_email with the message as received, and its outcome is  *)
(* the outcome of that call.                                               *)
(***************************************************************************)
C3_ForwardsOnce ==
    (last.op = "send_email" /\ last.recv \in Clients
        /\ ImplementsEmailClient(Held(heap, last.recv))) =>
        LET S == Held(heap, last.recv) IN
        /\ DirectCalls(last) =
              <<[depth |-> 1, recv |-> S, name |-> "send_email", args |-> last.args]>>
        /\ last.outcome = CallMethod(heap, S, "send_email", last.args, 1).outcome

C3_Witness ==
    /\ last.op = "send_email"
    /\ last.recv \in Clients
    /\ TypeOf(heap, Held(heap, last.recv)) = "OutlookClient"
    /\ Len(DirectCalls(last)) = 1
    /\ ReturnedStr(last)

(***************************************************************************)
(* C4: for a string message m, a client built on GmailClientGood returns   *)
(* "Sending via Gmail: " + m, one on OutlookClient "Sending via Outlook: " *)
(* + m and one on YahooClient "Sending via Yahoo: " + m.                   *)
(***************************************************************************)
ProviderPrefix(cls) ==
    CASE cls = "GmailClientGood" -> "Sending via Gmail: "
      [] cls = "OutlookClient" -> "Sending via Outlook: "
      [] cls = "YahooClient" -> "Sending via Yahoo: "

C4_ProviderPrefix ==
    (last.op = "send_email" /\ last.recv \in Clients
        /\ ImplementsEmailClient(Held(heap, last.recv))
        /\ last.args[1].t = "str") =>
        /\ Returned(last)
        /\ last.outcome.value =
              PyStr(ProviderPrefix(TypeOf(heap, Held(heap, last.recv)))
                        \o last.args[1].s)

C4_Witness ==
    /\ last.op = "send_email"
    /\ last.recv \in Clients
    /\ TypeOf(heap, Held(heap, last.recv)) = "OutlookClient"
    /\ last.args = <<PyStr("Hello World!")>>
    /\ last.outcome.value = PyStr("Sending via Outlook: Hello World!")

(***************************************************************************)
(* C5: a client's operation (send_email of an EmailServiceGood,            *)
(* calculate_final_price of a PriceCalculator) called again on the same    *)
(* client with the same arguments has the same outcome, whatever was       *)
(* called in between; and no such call changes the heap.                   *)
(***************************************************************************)
C5_SameOutcome ==
    (pinned.op # "" /\ pinned.op = last.op /\ pinned.recv = last.recv
        /\ pinned.args = last.args) => pinned.outcome = last.outcome

C5_CallKeepsHeap ==
    last'.op \in {"send_email", "calculate_final_price"} => heap' = heap

C5_Idempotent == []C5_SameOutcome /\ [][C5_CallKeepsHeap]_vars

C5_Witness ==
    /\ pinned.op = "calculate_final_price"
    /\ last.op = "calculate_final_price"
    /\ pinned.recv = last.recv
    /\ pinned.args = last.args
    /\ last.args[1] = PyInt(100)
    /\ last.args[2] \in InstancesOf("PremiumCustomerDiscount")
    /\ last.outcome.value = PyTuple(<<FloatFromInt(90), FloatFromInt(10)>>)
    /\ pinned.outcome = last.outcome

(***************************************************************************)
(* C6: no step replaces the delegate of a client: every client that exists *)
(* before a step exists after it and holds the same object.                *)
(***************************************************************************)
C6_DelegateFixed ==
    [][\A c \in Clients :
          /\ c.id \in DOMAIN heap'
          /\ Held(heap', c) = Held(heap, c)]_vars

C6_Witness ==
    /\ last.op = "send_welcome_email"
    /\ last.recv \in Clients
    /\ Held(heap, last.recv) \in InstancesOf("GmailClientGood")
    /\ ReturnedStr(last)

(***************************************************************************)
(* C7 as stated: PenguinGood and Ostrich implement only walk(), and        *)
(* handing one of them to make_flying_bird_fly raises ContractViolation.   *)
(***************************************************************************)
WalkerOnly(v) == v.t = "ref" /\ v.id[1] \in {"PenguinGood", "Ostrich"}

C7_FlyerRejectsWalker ==
    (last.op = "make_flying_bird_fly" /\ WalkerOnly(last.args[1]))
        => Threw(last, "ContractViolation")

(***************************************************************************)
(* C7 amended: PenguinGood and Ostrich implement only walk(), which        *)
(* returns a string; handing one of them to make_flying_bird_fly raises    *)
(* the AttributeError of the missing fly attribute from inside the call,   *)
(* and no method of the bird is run.                                       *)
(***************************************************************************)
C7_WalkerHasNoFly ==
    /\ (last.op = "make_flying_bird_fly" /\ WalkerOnly(last.args[1])) =>
          /\ Threw(last, "AttributeError")
          /\ last.calls = <<>>
    /\ (last.op = "make_flightless_bird_walk" /\ WalkerOnly(last.args[1])) =>
          ReturnedStr(last)

C7_Witness ==
    /\ last.op = "make_flying_bird_fly"
    /\ last.args[1] \in InstancesOf("PenguinGood")
    /\ Threw(last, "AttributeError")

(***************************************************************************)
(* C8: authenticate_user of UserAuthenticator and of UserManager raises    *)
(* nothing; it returns True when username and password are both non-empty  *)
(* and False otherwise.                                                    *)
(***************************************************************************)
NonEmpty(v) == v.t = "str" /\ v.s # ""

C8_AuthenticateRecovers ==
    (last.op = "authenticate_user"
        /\ TypeOf(heap, last.recv) \in {"UserAuthenticator", "UserManager"}) =>
        /\ Returned(last)
        /\ last.outcome.value = PyBool(NonEmpty(last.args[1]) /\ NonEmpty(last.args[2]))

C8_Witness ==
    /\ last.op = "authenticate_user"
    /\ last.recv \in InstancesOf("UserAuthenticator")
    /\ last.args = <<PyStr(""), PyStr("password123")>>
    /\ last.outcome.value = PyBool(FALSE)

(***************************************************************************)
(* C9: on a good strategy every operation of its capability returns a      *)
(* string, in any order of calls (play_audio on MP3PlayerGood; play_video, *)
(* stop_video, adjust_video_brightness on MoviePlayerGood; fly on          *)
(* SparrowGood and Eagle; walk on PenguinGood and Ostrich, called directly *)
(* or through make_flying_bird_fly / make_flightless_bird_walk), and the   *)
(* strategy has no operation of the other capability: asking for one is an *)
(* AttributeError.                                                         *)
(***************************************************************************)
Declared(cls) ==
    CASE cls = "MP3PlayerGood" -> {"play_audio"}
      [] cls = "MoviePlayerGood" ->
            {"play_video", "stop_video", "adjust_video_brightness"}
      [] cls \in {"SparrowGood", "Eagle"} -> {"fly"}
      [] cls \in {"PenguinGood", "Ostrich"} -> {"walk"}

GoodStrategies ==
    {"MP3PlayerGood", "MoviePlayerGood", "SparrowGood", "Eagle", "PenguinGood",
     "Ostrich"}

C9_ExactlyDeclared ==
    /\ (last.op \in Operations(module) /\ TypeOf(heap, last.recv) \in GoodStrategies) =>
          IF last.op \in Declared(TypeOf(heap, last.recv))
          THEN ReturnedStr(last)
          ELSE Threw(last, "AttributeError")
    /\ (last.op = "make_flying_bird_fly"
          /\ TypeOf(heap, last.args[1]) \in {"SparrowGood", "Eagle"}) => ReturnedStr(last)
    /\ (last.op = "make_flightless_bird_walk"
          /\ TypeOf(heap, last.args[1]) \in {"PenguinGood", "Ostrich"}) =>
          ReturnedStr(last)

C9_Witness ==
    /\ last.op = "stop_video"
    /\ last.recv \in InstancesOf("MoviePlayerGood")
    /\ last.outcome.value = PyStr("Movie playback stopped")

(***************************************************************************)
(* C10: clients share nothing.  A step that is not a call on client c      *)
(* leaves c's instance dictionary as it was; and two send_email calls with *)
(* the same message, on one client or on two, before and after any other   *)
(* calls, have the same outcome whenever the two clients hold the same     *)
(* object or concrete senders of the same class.                           *)
(***************************************************************************)
SameStrategy(a, b) ==
    \/ Held(heap, a) = Held(heap, b)
    \/ /\ ImplementsEmailClient(Held(heap, a))
       /\ ImplementsEmailClient(Held(heap, b))
       /\ TypeOf(heap, Held(heap, a)) = TypeOf(heap, Held(heap, b))

C10_ResultOwnStrategyOnly ==
    (pinned.op = "send_email" /\ last.op = "send_email"
        /\ pinned.recv \in Clients /\ last.recv \in Clients
        /\ pinned.args = last.args /\ SameStrategy(pinned.recv, last.recv))
        => pinned.outcome = last.outcome

C10_OthersUntouched ==
    \A c \in Clients : last'.recv # c => (c.id \in DOMAIN heap' /\ heap'[c.id] = heap[c.id])

C10_NoSharedState == []C10_ResultOwnStrategyOnly /\ [][C10_OthersUntouched]_vars

C10_Witness ==
    /\ pinned.op = "send_email"
    /\ last.op = "send_email"
    /\ pinned.recv \in Clients
    /\ last.recv \in Clients
    /\ pinned.recv # last.recv
    /\ pinned.args = last.args
    /\ Held(heap, pinned.recv) = Held(heap, last.recv)
    /\ Held(heap, last.recv) \in InstancesOf("YahooClient")
    /\ ReturnedStr(last)
    /\ pinned.outcome = last.outcome

(***************************************************************************)
(* Vocabulary of the price properties.                                     *)
(***************************************************************************)
ConcreteDiscounts ==
    {"RegularCustomerDiscount", "PremiumCustomerDiscount", "VIPCustomerDiscount",
     "StudentDiscount", "SeniorCitizenDiscount"}

\* the last call is calculate_final_price(amount, discount) of a
\* PriceCalculator with an instance of one of the five discount classes
PriceCall ==
    /\ last.op = "calculate_final_price"
    /\ last.recv \in InstancesOf("PriceCalculator")
    /\ TypeOf(heap, last.args[2]) \in ConcreteDiscounts

\* the call returned the pair (amount - d, d), d = discount.calculate(amount)
ReturnedPair(call) ==
    /\ Returned(call)
    /\ call.outcome.value.t = "tuple"
    /\ Len(call.outcome.value.items) = 2
    /\ call.outcome.value.items[2] =
          CallMethod(heap, call.args[2], "calculate", <<call.args[1]>>, 1).outcome.value
    /\ call.outcome.value.items[1] = PySub(call.args[1], call.outcome.value.items[2])

Zero == PyInt(0)

Within(lo, x, hi) == PyLe(lo, x) /\ PyLe(x, hi)

(***************************************************************************)
(* C11 as stated: calculate_final_price with any of the five discounts     *)
(* returns (final_price, discount_amount), discount_amount being           *)
(* discount.calculate(amount) and final_price amount - discount_amount, so *)
(* that final_price + discount_amount = amount, and both lie between 0 and *)
(* amount.                                                                 *)
(***************************************************************************)
C11_SumIsAmount ==
    PriceCall =>
        /\ ReturnedPair(last)
        /\ PyEq(PyAdd(last.outcome.value.items[1], last.outcome.value.items[2]),
                last.args[1])
        /\ Within(Zero, last.outcome.value.items[2], last.args[1])
        /\ Within(Zero, last.outcome.value.items[1], last.args[1])

(***************************************************************************)
(* C11 amended: the pair and the bounds as stated, in float arithmetic;    *)
(* final_price + discount_amount is amount for an int amount such as the   *)
(* 100 of the demonstration, and within amount * 2^-50 of it otherwise     *)
(* (170.85 with the VIP discount gives 136.68 and 34.17, whose sum is not  *)
(* 170.85).                                                                *)
(***************************************************************************)
SumError(call) ==
    FloatSub(ToFloat(PyAdd(call.outcome.value.items[1], call.outcome.value.items[2])),
             ToFloat(call.args[1]))

C11_SumWithinRounding ==
    PriceCall =>
        /\ ReturnedPair(last)
        /\ Within(Zero, last.outcome.value.items[2], last.args[1])
        /\ Within(Zero, last.outcome.value.items[1], last.args[1])
        /\ last.args[1].t = "int" =>
              PyEq(PyAdd(last.outcome.value.items[1], last.outcome.value.items[2]),
                   last.args[1])
        /\ PyLe(FloatAbsScaled(SumError(last), 50), last.args[1])

C11_Witness ==
    /\ PriceCall
    /\ last.args[1] = FloatLiteral(17085, 2)
    /\ TypeOf(heap, last.args[2]) = "VIPCustomerDiscount"
    /\ last.outcome.value =
          PyTuple(<<FloatLiteral(13668, 2), FloatLiteral(3417, 2)>>)
    /\ ~PyEq(PyAdd(last.outcome.value.items[1], last.outcome.value.items[2]),
             last.args[1])

(***************************************************************************)
(* C12: the two demonstrations of a violation return, whatever the caller  *)
(* did before, and nothing escapes them.  demonstrate_lsp_violation makes  *)
(* the Sparrow fly, then the Penguin, and prints the Sparrow's result,     *)
(* then the Penguin's error, then its last lines;                          *)
(* demonstrate_isp_violation goes on after MP3Player.play_video and after  *)
(* MoviePlayer.play_audio raised, an ERROR line printed for each, up to    *)
(* its last lines.                                                         *)
(***************************************************************************)
\* the methods a call ran, by class and name, in order
MethodsRun(call) ==
    [i \in 1..Len(call.calls) |-> <<call.calls[i].recv.id[1], call.calls[i].name>>]

C12_DemonstrationsRecover ==
    /\ last.op = "demonstrate_lsp_violation" =>
          /\ Returned(last)
          /\ last.out = <<"=== VIOLATING LSP (BAD WAY) ===",
                          "Result: Sparrow flying fast!",
                          "ERROR: Penguins can't fly!",
                          "Problem: Penguin breaks the system because it can't fly!",
                          "">>
          /\ MethodsRun(last) = <<<<"Sparrow", "__init__">>, <<"Penguin", "__init__">>,
                                  <<"Sparrow", "fly">>, <<"Penguin", "fly">>>>
    /\ last.op = "demonstrate_isp_violation" =>
          /\ Returned(last)
          /\ last.out = <<"=== VIOLATING ISP (BAD WAY) ===",
                          "MP3 Player: Playing MP3 music...",
                          "ERROR: MP3 Player cannot play video!",
                          "Movie Player: Playing movie in high definition...",
                          "ERROR: Movie Player cannot play audio!",
                          "Problem: Players forced to implement methods they don't support!",
                          "">>
          /\ MethodsRun(last) = <<<<"MP3Player", "__init__">>, <<"MoviePlayer", "__init__">>,
                                  <<"MP3Player", "play_audio">>, <<"MP3Player", "play_video">>,
                                  <<"MoviePlayer", "play_video">>,
                                  <<"MoviePlayer", "play_audio">>>>

C12_Witness ==
    /\ last.op = "demonstrate_lsp_violation"
    /\ Returned(last)
    /\ Len(last.out) = 5
    /\ last.out[3] = "ERROR: Penguins can't fly!"
    /\ last.out[5] = ""
    /\ DOMAIN heap # {}

(***************************************************************************)
(* C13: calculate_discount of a DiscountCalculator has, for "regular",     *)
(* "premium" and "vip", the outcome of calculate on a new                  *)
(* RegularCustomerDiscount, PremiumCustomerDiscount and                    *)
(* VIPCustomerDiscount for the same amount; for any other customer type    *)
(* ("student" and "senior" too) it returns 0.                              *)
(***************************************************************************)
StrategyFor(customer_type) ==
    CASE customer_type = PyStr("regular") -> "RegularCustomerDiscount"
      [] customer_type = PyStr("premium") -> "PremiumCustomerDiscount"
      [] customer_type = PyStr("vip") -> "VIPCustomerDiscount"
      [] OTHER -> NoClass

CalculateOn(r, amount) ==
    IF Raised(r) THEN r
    ELSE CallMethod(r.heap, r.outcome.value, "calculate", <<amount>>, 1)

\* the outcome of cls().calculate(amount)
FreshCalculate(cls, amount) == CalculateOn(New(heap, cls, <<>>, 1), amount).outcome

C13_SameDiscounts ==
    (last.op = "calculate_discount" /\ last.recv \in InstancesOf("DiscountCalculator")) =>
        /\ Returned(last)
        /\ IF StrategyFor(last.args[1]) = NoClass
           THEN last.outcome.value = PyInt(0)
           ELSE last.outcome = FreshCalculate(StrategyFor(last.args[1]), last.args[2])

C13_Witness ==
    /\ last.op = "calculate_discount"
    /\ last.recv \in InstancesOf("DiscountCalculator")
    /\ last.args = <<PyStr("vip"), FloatLiteral(17085, 2)>>
    /\ last.outcome.value = FloatLiteral(3417, 2)
    /\ last.outcome = FreshCalculate("VIPCustomerDiscount", last.args[2])

(***************************************************************************)
(* C14: send_welcome_email(user_email) of a client has the outcome of      *)
(* send_email("Welcome to our service! Sent to: " + str(user_email)) on    *)
(* that client and on a new client built on the same delegate; on a        *)
(* concrete sender S it makes one call of its own, the client's            *)
(* send_email with that message, which makes the one call of               *)
(* S.send_email, and no other object is called.                            *)
(***************************************************************************)
WelcomeMessage(user_email) ==
    PyStr("Welcome to our service! Sent to: " \o Format(user_email))

SendEmailOn(r, message) ==
    IF Raised(r) THEN r
    ELSE CallMethod(r.heap, r.outcome.value, "send_email", <<message>>, 1)

\* the outcome of EmailServiceGood(S).send_email(message)
FreshSendEmail(S, message) ==
    SendEmailOn(New(heap, "EmailServiceGood", <<S>>, 1), message).outcome

CallsOn(call, recv) == SelectSeq(call.calls, LAMBDA e : e.recv = recv)

WelcomeCall == last.op = "send_welcome_email" /\ last.recv \in Clients

C14_WelcomeThroughSendEmail ==
    WelcomeCall =>
        /\ last.outcome =
              CallMethod(heap, last.recv, "send_email",
                         <<WelcomeMessage(last.args[1])>>, 1).outcome
        /\ last.outcome = FreshSendEmail(Held(heap, last.recv), WelcomeMessage(last.args[1]))
        /\ ImplementsEmailClient(Held(heap, last.recv)) =>
              /\ DirectCalls(last) =
                    <<[depth |-> 1, recv |-> last.recv, name |-> "send_email",
                       args |-> <<WelcomeMessage(last.args[1])>>]>>
              /\ CallsOn(last, Held(heap, last.recv)) =
                    <<[depth |-> 2, recv |-> Held(heap, last.recv), name |-> "send_email",
                       args |-> <<WelcomeMessage(last.args[1])>>]>>
              /\ \A i \in 1..Len(last.calls) :
                    last.calls[i].recv \in {last.recv, Held(heap, last.recv)}

C14_Witness ==
    /\ WelcomeCall
    /\ Held(heap, last.recv) \in InstancesOf("GmailClientGood")
    /\ last.args = <<PyStr("Hello World!")>>
    /\ last.outcome.value =
          PyStr("Sending via Gmail: Welcome to our service! Sent to: Hello World!")
    /\ Len(CallsOn(last, Held(heap, last.recv))) = 1

=============================================================================
